---- MODULE Spec2Model ----
(***************************************************************************)
(* Hango: lunch orders, pickup and the no-show / blocking policy.          *)
(* The database rows (users, orders, block events), the session carts and  *)
(* the wall clock are the state; each view, admin action, management       *)
(* command and model method that writes one of them is an action.          *)
(***************************************************************************)
EXTENDS Integers, Sequences, FiniteSets, TLC

\* ------------------------------------------------------------------------
\* Bounds of the model
\* ------------------------------------------------------------------------
MaxTicks == 2
MaxTicksStreak == 4
MaxOps == 2
MaxOpsStreak == 3
MaxStreak == 4
MaxEvents == 2
MaxTokens == 5
MaxQty == 2
PayloadFree == 2
MaxOpsSchedule == 1

\* ------------------------------------------------------------------------
\* Program constants
\* ------------------------------------------------------------------------
AUTO_BLOCK_THRESHOLD_DEFAULT == 3
TOKEN_ATTEMPTS == 8
SCAN_DAYS == 31
MON_FRI_MASK == 31
CUTOFF_HOUR == 13
CUTOFF_MINUTE == 30
DEFAULT_CUTOFF_HOUR == 15

MinutesPerDay == 24 * 60

\* Null values, one per column type.
NoUser == "none"
NoTime == -1
NoToken == 0

\* The people of the model: one student, one staff operator (is_staff) and
\* one helper who holds the kitchen permissions without being staff.
Students == {"ana"}
Operators == {"staff", "helper"}
is_staff(u) == u = "staff"

\* Menu items and their category (Item.category): two dishes of the lunch
\* category and one item that has no category.
Items == {"prato", "sopa", "avulso"}
ItemCategory(i) == IF i = "avulso" THEN "" ELSE "almoco"

\* The item the students of the ordering scenarios put in the cart.
DailyItems == {"prato"}

\* Instants of a day the clock visits: 09:00 (before both cut-offs) and
\* 16:00 (after both).
TimesOfDay == {9 * 60, 16 * 60}

Tokens == 1..MaxTokens
STATUS == {"pending", "picked_up", "no_show", "canceled"}
CANCELED_STATUSES == {"canceled"}

VARIABLES
    now,          \* timezone.now(), in minutes since Monday 00:00 local time
    users,        \* accounts.User rows of the students
    orders,       \* orders.Order rows, in id order (id = index)
    blockEvents,  \* accounts.BlockEvent rows, in creation order
    cart,         \* request.session["cart"] of each student: item -> qty
    pc,           \* where each checkout request is
    reqDay,       \* service_day computed by a checkout request
    last,         \* the response of the most recent request
    nops,         \* how many staff operations the model still follows
    student_classes,    \* user.student_classes: the classes of each student
    DiaSemAtendimento,  \* calendar.DiaSemAtendimento rows (closures)
    extraLunchDays,     \* classes.ExtraLunchDay rows: [student_class, date]
    code,               \* the EAN-13 text under study: a sequence of characters
    sweep,              \* where each running auto_mark_no_shows command is
    reqToken,           \* pickup_token a checkout request drew for its order
    mark,               \* the no-show marking that is between two of its saves
    cutoff_time,        \* OrderCutoffSetting row: its cutoff_time, or NoTime
    cutoff_cache,       \* cache entry "hango.order_cutoff_time", or NoTime
    reader              \* get_cutoff_time calls between cache.get and cache.set

\* What the staff configures, the code under study, the running sweep
\* commands and the token a request holds between its draw and its insert:
\* the requests that run as one step do not write them.
site == <<student_classes, DiaSemAtendimento, extraLunchDays>>

cutoff == <<cutoff_time, cutoff_cache, reader>>

env == <<site, code, sweep, reqToken, mark, cutoff>>

vars == <<now, users, orders, blockEvents, cart, pc, reqDay, last, nops, env>>

\* Two request slots, so that two checkouts of one student can overlap. A new
\* request takes the lowest free slot.
Requests == {1, 2}
RequestUser(r) == "ana"

\* ------------------------------------------------------------------------
\* Clock
\* ------------------------------------------------------------------------
localdate(t) == t \div MinutesPerDay
localtime(t) == t % MinutesPerDay
weekday(d) == d % 7

Min(S) == CHOOSE x \in S : \A y \in S : x <= y

NextInstant(t) ==
    LET later == {m \in TimesOfDay : m > localtime(t)}
    IN  IF later # {} THEN localdate(t) * MinutesPerDay + Min(later)
        ELSE (localdate(t) + 1) * MinutesPerDay + Min(TimesOfDay)

Response(op, kind, day) == [op |-> op, kind |-> kind, day |-> day]

\* How many instants the clock has passed at t.
Instant(t) ==
    localdate(t) * Cardinality(TimesOfDay)
        + Cardinality({m \in TimesOfDay : m < localtime(t)})

\* The clock moves in steps of hours; a checkout request takes far less, so
\* the clock moves between requests.
Tick(maxTicks) ==
    /\ Instant(NextInstant(now)) <= maxTicks
    /\ \A r \in Requests : pc[r] = "idle"
    /\ now' = NextInstant(now)
    /\ last' = Response("tick", "ok", NoTime)
    /\ UNCHANGED <<users, orders, blockEvents, cart, pc, reqDay, nops, env>>

\* ------------------------------------------------------------------------
\* Rows
\* ------------------------------------------------------------------------
NewUser ==
    [ is_blocked |-> FALSE, block_source |-> "", blocked_reason |-> "",
      blocked_at |-> NoTime, blocked_by |-> NoUser,
      no_show_streak |-> 0, last_no_show_at |-> NoTime,
      last_pickup_at |-> NoTime,
      lunch_days_override_enabled |-> FALSE, lunch_days_override_mask |-> 0 ]

NewOrder(u, day, token, lines) ==
    [ user |-> u, service_day |-> day, status |-> "pending",
      delivery_status |-> "pending", delivered_at |-> NoTime,
      delivered_by |-> NoUser, pickup_token |-> token, lines |-> lines ]

OrderIds == 1..Len(orders)

\* ------------------------------------------------------------------------
\* Service-day resolution (orders/services/scheduling.py)
\* ------------------------------------------------------------------------
\* The classes (StudentClass rows) and their days_mask: one with the default
\* mask, one for Monday and Tuesday, one for Tuesday and Wednesday.
Classes == {"integral", "manha", "tarde"}
days_mask(c) ==
    IF c = "integral" THEN MON_FRI_MASK ELSE IF c = "manha" THEN 3 ELSE 6
StudentClassMasks(u) == {days_mask(c) : c \in student_classes[u]}

\* ExtraLunchDay.objects.filter(student_class__in=user.student_classes.all()):
\* the dates granted to a class of the student.
ExtraLunchDay(u) ==
    {g.date : g \in {x \in extraLunchDays :
                        x.student_class \in student_classes[u]}}

\* lunch_days_override_mask of a kitchen or admin user: the field default.
operator_override_mask(by) == 0
NoMask == -1

_weekday_bit(d) == 2 ^ weekday(d)
HasBit(mask, bit) == (mask \div bit) % 2 = 1

RECURSIVE OrMasks(_)
OrMasks(S) ==
    IF S = {} THEN 0
    ELSE LET m == CHOOSE x \in S : TRUE
             rest == OrMasks(S \ {m})
         IN  rest + m - (CHOOSE c \in 0..m :
                 /\ \A b \in {1, 2, 4, 8, 16, 32, 64} :
                        HasBit(c, b) <=> (HasBit(rest, b) /\ HasBit(m, b))
                 /\ c < 128)

\* The generic scan over the relations of the user. Of the objects related
\* to a student only blocked_by, a User, has one of the mask attributes
\* (lunch_days_override_mask).
_mask_from_related_any(u) ==
    IF users[u].blocked_by # NoUser
    THEN operator_override_mask(users[u].blocked_by)
    ELSE NoMask

_default_mask == MON_FRI_MASK

_user_lunch_mask(u) ==
    IF users[u].lunch_days_override_enabled
    THEN users[u].lunch_days_override_mask
    ELSE IF StudentClassMasks(u) # {} THEN OrMasks(StudentClassMasks(u))
    ELSE IF _mask_from_related_any(u) # NoMask THEN _mask_from_related_any(u)
    ELSE _default_mask

\* A test of the weekday mask alone.
is_lunch_day_by_mask(u, dia) ==
    HasBit(_user_lunch_mask(u), _weekday_bit(dia))

is_lunch_day_for_user(u, dia) ==
    \/ dia \in ExtraLunchDay(u)
    \/ HasBit(_user_lunch_mask(u), _weekday_bit(dia))

\* A calendar in which no closure repeats.
is_closed_exact(dia) == \E c \in DiaSemAtendimento : c.data = dia

\* A closure row is [data, repete_anualmente]; the model's year has 365 days.
is_closed(dia) ==
    \/ \E c \in DiaSemAtendimento : c.data = dia
    \/ \E c \in DiaSemAtendimento :
          c.repete_anualmente /\ c.data % 365 = dia % 365

\* OrderCutoffSetting.get_cutoff_time, in minutes of the day: the cached
\* value if there is one, else the row's cutoff_time, else the default.
Readers == {"web1", "web2"}
IdleReader == [phase |-> "idle", value |-> NoTime, overlapped |-> FALSE]

get_cutoff_time ==
    IF cutoff_cache # NoTime THEN cutoff_cache
    ELSE IF cutoff_time # NoTime THEN cutoff_time
    ELSE DEFAULT_CUTOFF_HOUR * 60

RECURSIVE ScanDays(_, _, _)
ScanDays(u, dia, left) ==
    IF left = 0 THEN NoTime
    ELSE IF is_lunch_day_for_user(u, dia) /\ ~is_closed(dia) THEN dia
    ELSE ScanDays(u, dia + 1, left - 1)

\* A comparison that still takes the cut-off instant itself for early.
NotAfterCutoff(t) == localtime(t) <= get_cutoff_time

\* tz_now.time() < cutoff
BeforeCutoff(t) == localtime(t) < get_cutoff_time

next_eligible_service_day(u, t) ==
    LET today == localdate(t)
        base_days == IF BeforeCutoff(t) THEN 1 ELSE 2
        found == ScanDays(u, today + base_days, SCAN_DAYS)
    IN  IF found # NoTime THEN found ELSE today + base_days

_orders_paused_today(u, t) ==
    weekday(localdate(t)) \in {5, 6} /\ ~is_staff(u)

ensure_student_daily_limit(u, day) ==
    ~ \E i \in OrderIds : orders[i].user = u /\ orders[i].service_day = day

\* ------------------------------------------------------------------------
\* EAN-13 codes (orders/models.py _ean13_check_digit, _generate_ean13;
\* orders/views.py _ean13_check_digit, _ean13_is_valid). A text is a sequence
\* of characters; the digits are 0..9 and Dash is a character that is none.
\* ------------------------------------------------------------------------
Digit == 0..9
Dash == 10
isdigit(ch) == ch \in Digit

\* The loop of both _ean13_check_digit functions over the first k characters:
\* weight 3 at the even 1-indexed positions, 1 at the odd ones.
RECURSIVE WeightedSum(_, _)
WeightedSum(n12, k) ==
    IF k = 0 THEN 0
    ELSE WeightedSum(n12, k - 1)
            + (IF k % 2 = 0 THEN 3 * n12[k] ELSE n12[k])

\* The loop with the two weights exchanged.
RECURSIVE SwappedSum(_, _)
SwappedSum(n12, k) ==
    IF k = 0 THEN 0
    ELSE SwappedSum(n12, k - 1)
            + (IF k % 2 = 0 THEN n12[k] ELSE 3 * n12[k])

\* orders/models.py
models_ean13_check_digit(d12) == (10 - (WeightedSum(d12, Len(d12)) % 10)) % 10

\* _generate_ean13, for the twelve digits d12 it drew.
_generate_ean13(d12) == Append(d12, models_ean13_check_digit(d12))

\* A check digit computed with the weights exchanged.
swapped_check_digit(n12) == (10 - (SwappedSum(n12, Len(n12)) % 10)) % 10

\* orders/views.py
_ean13_check_digit(n12) == (10 - (WeightedSum(n12, Len(n12)) % 10)) % 10

_ean13_is_valid(c) ==
    /\ Len(c) = 13
    /\ \A i \in 1..Len(c) : isdigit(c[i])
    /\ _ean13_check_digit(SubSeq(c, 1, 12)) = c[13]

\* The draws of twelve digits the model follows: PayloadFree free digits in
\* front of a fixed tail.
PayloadTail == <<3, 1, 4, 1, 5, 9, 2, 6, 5, 3, 5, 8>>
Payloads ==
    {f \o SubSeq(PayloadTail, 1, 12 - PayloadFree) :
        f \in [1..PayloadFree -> Digit]}

Verdict(c) == IF _ean13_is_valid(c) THEN "valid" ELSE "invalid"

\* A token is generated and validated.
Generate(d12) ==
    /\ code = <<>>
    /\ code' = _generate_ean13(d12)
    /\ last' = Response("generate", Verdict(code'), NoTime)
    /\ UNCHANGED <<now, users, orders, blockEvents, cart, pc, reqDay, nops,
                   site, sweep, reqToken, mark, cutoff>>

\* One character of a generated token is replaced by another one, and the
\* text is validated.
Replace(p, ch) ==
    /\ last.op = "generate"
    /\ p \in 1..Len(code)
    /\ ch # code[p]
    /\ code' = [code EXCEPT ![p] = ch]
    /\ last' = Response("replace", Verdict(code'), NoTime)
    /\ UNCHANGED <<now, users, orders, blockEvents, cart, pc, reqDay, nops,
                   site, sweep, reqToken, mark, cutoff>>

\* The last digit of a generated token is lost, and the text is validated.
Cut ==
    /\ last.op = "generate"
    /\ code' = SubSeq(code, 1, Len(code) - 1)
    /\ last' = Response("cut", Verdict(code'), NoTime)
    /\ UNCHANGED <<now, users, orders, blockEvents, cart, pc, reqDay, nops,
                   site, sweep, reqToken, mark, cutoff>>

\* A generated token gets one more digit, and the text is validated.
Pad(d) ==
    /\ last.op = "generate"
    /\ code' = Append(code, d)
    /\ last' = Response("pad", Verdict(code'), NoTime)
    /\ UNCHANGED <<now, users, orders, blockEvents, cart, pc, reqDay, nops,
                   site, sweep, reqToken, mark, cutoff>>

\* ------------------------------------------------------------------------
\* Pickup tokens (Order.ensure_pickup_token)
\* ------------------------------------------------------------------------
UsedTokens == {orders[i].pickup_token : i \in OrderIds} \ {NoToken}

\* The values one draw of _generate_ean13 can take. The tokens no order
\* carries are interchangeable, so the least of them stands for all.
Candidates(used) ==
    (Tokens \cap used) \cup
    (IF Tokens \ used # {} THEN {Min(Tokens \ used)} ELSE {})

\* Every result the retry loop can end with: the first candidate that no
\* order carries, or NoToken (RuntimeError) after `left` colliding draws.
RECURSIVE ensure_pickup_token(_, _)
ensure_pickup_token(left, used) ==
    IF left = 0 THEN {NoToken}
    ELSE {c \in Candidates(used) : c \notin used} \cup
         (IF \E c \in Candidates(used) : c \in used
          THEN ensure_pickup_token(left - 1, used) ELSE {})

\* An orders table without unique constraints.
NoUniqueConstraint(o) == FALSE

\* An orders table whose pickup_token column is not unique.
TokenNotUnique(o) ==
    \E i \in OrderIds :
        orders[i].user = o.user /\ orders[i].service_day = o.service_day

\* The unique constraints of the orders table: (user, service_day) and
\* pickup_token.
IntegrityError(o) ==
    \/ \E i \in OrderIds :
          orders[i].user = o.user /\ orders[i].service_day = o.service_day
    \/ \E i \in OrderIds : orders[i].pickup_token = o.pickup_token

\* ------------------------------------------------------------------------
\* Cart (orders/views.py add, remove)
\* ------------------------------------------------------------------------
_cart_lines(c) == {i \in Items : c[i] > 0}

CartAdd(u, item) ==
    /\ ItemCategory(item) # ""
    /\ cart[u][item] < 1
    /\ ~ \E i \in _cart_lines(cart[u]) : ItemCategory(i) = ItemCategory(item)
    /\ cart' = [cart EXCEPT ![u][item] = 1]
    /\ last' = Response("cart", "ok", NoTime)
    /\ UNCHANGED <<now, users, orders, blockEvents, pc, reqDay, nops, env>>

\* menu/views.py add_to_cart: one more unit of an active item, whatever the
\* cart holds. The model follows a line up to MaxQty units.
MenuAddToCart(u, item) ==
    /\ \A r \in Requests : pc[r] = "idle"
    /\ cart[u][item] < MaxQty
    /\ cart' = [cart EXCEPT ![u][item] = @ + 1]
    /\ last' = Response("menu", "ok", NoTime)
    /\ UNCHANGED <<now, users, orders, blockEvents, pc, reqDay, nops, env>>

CartRemove(u, item) ==
    /\ cart[u][item] > 0
    /\ cart' = [cart EXCEPT ![u][item] = 0]
    /\ last' = Response("cart", "ok", NoTime)
    /\ UNCHANGED <<now, users, orders, blockEvents, pc, reqDay, nops, env>>

\* ------------------------------------------------------------------------
\* Checkout (orders/views.py checkout): the validations and the pre-check
\* run first; the atomic block that creates the order is a later step.
\* ------------------------------------------------------------------------
\* A checkout that does not look at the categories of the cart.
CheckoutRejectionNoCategory(u, t) ==
    LET lines == _cart_lines(cart[u])
    IN  IF _orders_paused_today(u, t) THEN "paused"
        ELSE IF lines = {} THEN "empty_cart"
        ELSE IF \E i \in lines : cart[u][i] > 1 THEN "quantity"
        ELSE IF ~ensure_student_daily_limit(u, next_eligible_service_day(u, t))
             THEN "duplicate"
        ELSE "none"

CheckoutRejection(u, t) ==
    LET lines == _cart_lines(cart[u])
    IN  IF _orders_paused_today(u, t) THEN "paused"
        ELSE IF lines = {} THEN "empty_cart"
        ELSE IF \E i \in lines : cart[u][i] > 1 THEN "quantity"
        ELSE IF \E i \in lines : ItemCategory(i) = "" THEN "uncategorized"
        ELSE IF \E i, j \in lines : i # j /\ ItemCategory(i) = ItemCategory(j)
             THEN "category_conflict"
        ELSE IF ~ensure_student_daily_limit(u, next_eligible_service_day(u, t))
             THEN "duplicate"
        ELSE "none"

CheckoutStart(r) ==
    LET u == RequestUser(r)
        day == next_eligible_service_day(u, now)
        why == CheckoutRejection(u, now)
    IN  /\ pc[r] = "idle"
        /\ \A q \in Requests : q < r => pc[q] # "idle"
        /\ IF why # "none"
           THEN /\ last' = Response("checkout", why,
                                    IF why = "duplicate" THEN day ELSE NoTime)
                /\ UNCHANGED <<pc, reqDay>>
           ELSE /\ pc' = [pc EXCEPT ![r] = "create"]
                /\ reqDay' = [reqDay EXCEPT ![r] = day]
                /\ last' = Response("checkout", "checked", day)
        /\ UNCHANGED <<now, users, orders, blockEvents, cart, nops, env>>

\* What the atomic block answers when the insert raises IntegrityError.
OnIntegrityError == "duplicate"

CheckoutCreate(r) ==
    LET u == RequestUser(r)
        day == reqDay[r]
    IN  /\ pc[r] = "create"
        /\ pc' = [pc EXCEPT ![r] = "idle"]
        /\ reqDay' = [reqDay EXCEPT ![r] = NoTime]
        /\ \E token \in ensure_pickup_token(TOKEN_ATTEMPTS, UsedTokens) :
             LET o == NewOrder(u, day, token, _cart_lines(cart[u]))
             IN  IF token = NoToken
                 THEN /\ last' = Response("checkout_atomic", "alloc_error", day)
                      /\ UNCHANGED <<orders, cart>>
                 ELSE IF IntegrityError(o)
                 THEN /\ last' = Response("checkout_atomic", OnIntegrityError, day)
                      /\ UNCHANGED <<orders, cart>>
                 ELSE /\ orders' = Append(orders, o)
                      /\ cart' = [cart EXCEPT ![u] = [i \in Items |-> 0]]
                      /\ last' = Response("checkout_atomic", "success", day)
        /\ UNCHANGED <<now, users, blockEvents, nops, env>>

\* The atomic block of two overlapping checkouts, statement by statement:
\* Order.save draws the token (ensure_pickup_token tests each candidate
\* against the orders already committed), then inserts the row. A request
\* may draw any token no committed order carries, the one another request
\* holds included. RuntimeError leaves the view; nothing is saved.
DrawnTokens == {reqToken[r] : r \in Requests} \ {NoToken}

CheckoutDraw(r) ==
    /\ pc[r] = "create"
    /\ \E token \in ensure_pickup_token(TOKEN_ATTEMPTS, UsedTokens)
                    \cup (DrawnTokens \ UsedTokens) :
          IF token = NoToken
          THEN /\ pc' = [pc EXCEPT ![r] = "idle"]
               /\ reqDay' = [reqDay EXCEPT ![r] = NoTime]
               /\ last' = Response("checkout_draw", "alloc_error", reqDay[r])
               /\ UNCHANGED reqToken
          ELSE /\ pc' = [pc EXCEPT ![r] = "insert"]
               /\ reqToken' = [reqToken EXCEPT ![r] = token]
               /\ last' = Response("checkout_draw", "drawn", reqDay[r])
               /\ UNCHANGED reqDay
    /\ UNCHANGED <<now, users, orders, blockEvents, cart, nops,
                   site, code, sweep, mark, cutoff>>

CheckoutInsert(r) ==
    LET u == RequestUser(r)
        o == NewOrder(u, reqDay[r], reqToken[r], _cart_lines(cart[u]))
    IN  /\ pc[r] = "insert"
        /\ pc' = [pc EXCEPT ![r] = "idle"]
        /\ reqDay' = [reqDay EXCEPT ![r] = NoTime]
        /\ reqToken' = [reqToken EXCEPT ![r] = NoToken]
        /\ IF IntegrityError(o)
           THEN /\ last' = Response("checkout_insert", OnIntegrityError,
                                    reqDay[r])
                /\ UNCHANGED <<orders, cart>>
           ELSE /\ orders' = Append(orders, o)
                /\ cart' = [cart EXCEPT ![u] = [i \in Items |-> 0]]
                /\ last' = Response("checkout_insert", "success", reqDay[r])
        /\ UNCHANGED <<now, users, blockEvents, nops,
                       site, code, sweep, mark, cutoff>>

\* The cutoff passes while a checkout is between its service-day
\* computation and its insert.
CutoffPasses(maxTicks) ==
    /\ Instant(NextInstant(now)) <= maxTicks
    /\ now' = NextInstant(now)
    /\ last' = Response("tick", "ok", NoTime)
    /\ UNCHANGED <<users, orders, blockEvents, cart, pc, reqDay, nops, env>>

\* ------------------------------------------------------------------------
\* Model methods. They work on the database D = [users, orders, events] and
\* on `mem`, the in-memory User instance the caller holds (order.user), which
\* may be older than the row.
\* ------------------------------------------------------------------------
DB == [users |-> users, orders |-> orders, events |-> blockEvents]

get_auto_block_threshold == AUTO_BLOCK_THRESHOLD_DEFAULT
AutoBlockReason == "3 faltas consecutivas"

\* An actor kept on the row whatever the actor's capability.
AnyActor(by) == by

\* blocked_by: the actor if staff, else null.
StaffOrNone(by) == IF by # NoUser /\ is_staff(by) THEN by ELSE NoUser

\* A block whose save writes the streak fields as of a new user.
block_resets_streak(D, u, mem, source, by, reason, t) ==
    [ D EXCEPT
        !.users[u] =
            [ @ EXCEPT !.is_blocked = TRUE, !.block_source = source,
                       !.blocked_reason = reason, !.blocked_at = t,
                       !.blocked_by = StaffOrNone(by),
                       !.no_show_streak = 0,
                       !.last_no_show_at = NoTime ],
        !.events = Append(@, [ user |-> u, action |-> "block",
                               source |-> source, by_user |-> StaffOrNone(by),
                               reason |-> reason ]) ]

\* User.block on the instance mem of user u: saves the block fields and the
\* instance's streak fields, then appends the BlockEvent.
block(D, u, mem, source, by, reason, t) ==
    LET actor == StaffOrNone(by)
    IN  [ D EXCEPT
            !.users[u] =
                [ @ EXCEPT !.is_blocked = TRUE, !.block_source = source,
                           !.blocked_reason = reason, !.blocked_at = t,
                           !.blocked_by = actor,
                           !.no_show_streak = mem.no_show_streak,
                           !.last_no_show_at = mem.last_no_show_at ],
            !.events = Append(@, [ user |-> u, action |-> "block",
                                   source |-> source, by_user |-> actor,
                                   reason |-> reason ]) ]

\* An unblock that leaves the streak as it is.
unblock_keeps_streak(D, u, by, reason) ==
    [ D EXCEPT
        !.users[u] =
            [ @ EXCEPT !.is_blocked = FALSE, !.block_source = "",
                       !.blocked_reason = reason, !.blocked_at = NoTime,
                       !.blocked_by = by ],
        !.events = Append(@, [ user |-> u, action |-> "unblock",
                               source |-> "manual", by_user |-> by,
                               reason |-> reason ]) ]

\* User.unblock after its permission check.
unblock(D, u, by, reason) ==
    [ D EXCEPT
        !.users[u] =
            [ @ EXCEPT !.is_blocked = FALSE, !.block_source = "",
                       !.blocked_reason = reason, !.blocked_at = NoTime,
                       !.blocked_by = by, !.no_show_streak = 0 ],
        !.events = Append(@, [ user |-> u, action |-> "unblock",
                               source |-> "manual", by_user |-> by,
                               reason |-> reason ]) ]

\* A mark_picked_up that never returns early.
NeverPickedUp(o) == FALSE

\* The early return of Order.mark_picked_up.
AlreadyPickedUp(o) == o.status = "picked_up"

\* A pickup that draws a new token for the order.
mark_picked_up_new_token(D, i, mem, by, t) ==
    [ D EXCEPT !.orders[i] =
        [ @ EXCEPT !.status = "picked_up",
                   !.delivery_status = "delivered",
                   !.delivered_at = t,
                   !.pickup_token = (@ % MaxTokens) + 1 ] ]

\* A pickup that also lifts the student's block.
mark_picked_up_unblocks(D, i, mem, by, t) ==
    [ D EXCEPT
        !.orders[i] = [ @ EXCEPT !.status = "picked_up",
                                 !.delivery_status = "delivered",
                                 !.delivered_at = t ],
        !.users[D.orders[i].user] =
            [ @ EXCEPT !.no_show_streak = 0,
                       !.last_pickup_at = localdate(t),
                       !.is_blocked = FALSE ] ]

\* Order.mark_picked_up(by) on order i.
mark_picked_up(D, i, mem, by, t) ==
    LET o == D.orders[i]
        u == o.user
    IN  IF AlreadyPickedUp(o) THEN D
        ELSE [ D EXCEPT
                 !.orders[i] =
                     [ @ EXCEPT !.status = "picked_up",
                                !.delivery_status = "delivered",
                                !.delivered_at = t,
                                !.delivered_by =
                                    IF by # NoUser /\ is_staff(by)
                                    THEN by ELSE o.delivered_by ],
                 !.users[u] =
                     IF mem.no_show_streak # 0 \/ mem.last_pickup_at = NoTime
                     THEN [ @ EXCEPT !.no_show_streak = 0,
                                     !.last_pickup_at = localdate(t) ]
                     ELSE @ ]

\* Order.mark_no_show(save_user=True) on order i.
Order_mark_no_show(D, i, mem, t) ==
    LET o == D.orders[i]
        u == o.user
        streak == mem.no_show_streak + 1
        mem2 == [ mem EXCEPT !.no_show_streak = streak,
                             !.last_no_show_at = localdate(t) ]
        D2 == [ D EXCEPT
                  !.orders[i] = [ @ EXCEPT !.status = "no_show",
                                           !.delivery_status = "undelivered" ],
                  !.users[u] = [ @ EXCEPT !.no_show_streak = streak,
                                          !.last_no_show_at = localdate(t) ] ]
    IN  IF o.status = "no_show" THEN D
        ELSE IF streak >= get_auto_block_threshold /\ ~mem.is_blocked
        THEN block(D2, u, mem2, "auto", NoUser, AutoBlockReason, t)
        ELSE D2

\* services.mark_no_show(order) on order i.
mark_no_show(D, i, mem, t) ==
    LET o == D.orders[i]
        u == o.user
        threshold == AUTO_BLOCK_THRESHOLD_DEFAULT
        D1 == IF o.status # "no_show"
              THEN [ D EXCEPT !.orders[i] =
                         [ @ EXCEPT !.status = "no_show",
                                    !.delivery_status = "undelivered" ] ]
              ELSE D
        D2 == [ D1 EXCEPT !.users[u] =
                    [ @ EXCEPT !.no_show_streak = mem.no_show_streak + 1,
                               !.last_no_show_at = localdate(t) ] ]
        \* refresh_from_db(fields=["no_show_streak", "is_blocked"])
        mem3 == [ mem EXCEPT !.no_show_streak = D2.users[u].no_show_streak,
                             !.last_no_show_at = localdate(t),
                             !.is_blocked = D2.users[u].is_blocked ]
    IN  IF mem3.no_show_streak >= threshold /\ ~mem3.is_blocked
        THEN block(D2, u, mem3, "auto", NoUser, AutoBlockReason, t)
        ELSE D2

\* recalculate_no_show_streak(user): the statuses of the user's orders up to
\* today, canceled ones left out, newest service day first.
RECURSIVE CountStreak(_, _)
CountStreak(statuses, streak) ==
    IF statuses = <<>> THEN streak
    ELSE IF Head(statuses) \in {"no_show", "undelivered"}
         THEN CountStreak(Tail(statuses), streak + 1)
    ELSE IF Head(statuses) = "delivered" THEN streak
    ELSE CountStreak(Tail(statuses), streak)

RECURSIVE StatusesByDayDesc(_, _, _)
StatusesByDayDesc(D, u, day) ==
    IF day < 0 THEN <<>>
    ELSE LET here == {i \in 1..Len(D.orders) :
                        /\ D.orders[i].user = u
                        /\ D.orders[i].service_day = day
                        /\ D.orders[i].status \notin {"canceled"}}
         IN  (IF here = {} THEN <<>>
              ELSE <<D.orders[CHOOSE i \in here : TRUE].status>>)
             \o StatusesByDayDesc(D, u, day - 1)

recalculate_no_show_streak(D, u, t) ==
    LET streak == CountStreak(StatusesByDayDesc(D, u, localdate(t)), 0)
    IN  [ D EXCEPT !.users[u] =
            [ @ EXCEPT !.no_show_streak = streak,
                       !.last_no_show_at =
                           IF streak # 0 THEN localdate(t) ELSE NoTime ] ]

\* The model follows the kitchen, the admin and the sweep through a bounded
\* number of operations.
StaffOp ==
    /\ nops > 0
    /\ nops' = nops - 1
    /\ UNCHANGED env

\* The rows of D written back to the state.
Commit(D) ==
    /\ users' = D.users
    /\ orders' = D.orders
    /\ blockEvents' = D.events

\* The model caps the streak counter and the length of the audit log.
WithinBounds(D) ==
    /\ \A u \in Students : D.users[u].no_show_streak <= MaxStreak
    /\ Len(D.events) <= MaxEvents

\* ------------------------------------------------------------------------
\* Kitchen and counter views (orders/views.py)
\* ------------------------------------------------------------------------
\* set_delivery_status(order_id, state): the service helpers load order.user
\* from the database when they first read it.
SetDeliveryStatus(i, state, by) ==
    /\ StaffOp
    /\ \E D \in {IF state = "delivered"
                 THEN mark_picked_up(DB, i, users[orders[i].user], by, now)
                 ELSE IF state = "undelivered"
                 THEN mark_no_show(DB, i, users[orders[i].user], now)
                 ELSE DB} :
           /\ WithinBounds(D)
           /\ Commit(D)
           /\ last' = Response(state, "ok", NoTime)
           /\ UNCHANGED <<now, cart, pc, reqDay>>

\* update_status(order_id, new_status): the legacy toggler.
UpdateStatus(i, new_status) ==
    /\ StaffOp
    /\ orders' = [orders EXCEPT ![i].status = new_status]
    /\ last' = Response("update_status", "ok", NoTime)
    /\ UNCHANGED <<now, users, blockEvents, cart, pc, reqDay>>


\* The text in the pickup_token column of an order that drew token k.
Ean13Table == [k \in Tokens |-> _generate_ean13([i \in 1..12 |-> (k * i) % 10])]
Ean13(k) == Ean13Table[k]

\* What the scan keeps of the posted text: its digits.
StripNonDigits(raw) == SelectSeq(raw, isdigit)

\* The texts the scanner posts: the code of every token, the code of token 1
\* with a dash in the middle, that code with another check digit, and nothing.
ScanInputs ==
    {Ean13(k) : k \in Tokens} \cup
    { SubSeq(Ean13(1), 1, 6) \o <<Dash>> \o SubSeq(Ean13(1), 7, 13),
      [Ean13(1) EXCEPT ![13] = (@ + 1) % 10],
      <<>> }

\* A scan that takes every text of 13 digits for a code.
AnyThirteenDigits(c) == Len(c) = 13

\* The validation the scan applies to the stripped text.
ScanAccepts(c) == _ean13_is_valid(c)

\* Stripping and validation of each posted text, computed once.
Stripped == [raw \in ScanInputs |-> StripNonDigits(raw)]
Accepted == {Stripped[raw] : raw \in {x \in ScanInputs : ScanAccepts(Stripped[x])}}

\* The tokens whose text is c, for each stripped text, computed once.
TokensOfText ==
    [c \in {Stripped[raw] : raw \in ScanInputs} |->
        {k \in Tokens : Ean13(k) = c}]

\* The orders whose pickup_token is the text token.
OrdersWithToken(token) ==
    {i \in OrderIds : orders[i].pickup_token \in TokensOfText[token]}

ScanResult(token, t) ==
    LET today == localdate(t)
        mine == {i \in OrdersWithToken(token) : orders[i].service_day = today}
        any == OrdersWithToken(token)
    IN  IF token \notin Accepted THEN "error"
        ELSE IF mine = {}
             THEN IF any = {} THEN "notfound"
                  ELSE IF orders[Min(any)].delivered_at # NoTime THEN "already"
                  ELSE "wrongday"
        ELSE IF orders[Min(mine)].delivered_at # NoTime THEN "already"
        ELSE "ok"

\* scan: token is what is left of the posted text raw once the non-digits
\* are stripped. The lookup, the test of delivered_at and the marking run in
\* one transaction that holds the lock of the order's row.
Scan(raw, by) ==
    LET token == Stripped[raw]
        result == ScanResult(token, now)
        i == Min({j \in OrdersWithToken(token) :
                    orders[j].service_day = localdate(now)})
    IN  /\ StaffOp
        /\ last' = Response("scan", result, NoTime)
        /\ IF result = "ok"
           THEN \E D \in {mark_picked_up(DB, i, users[orders[i].user],
                                         by, now)} : Commit(D)
           ELSE UNCHANGED <<users, orders, blockEvents>>
        /\ UNCHANGED <<now, cart, pc, reqDay>>

\* ------------------------------------------------------------------------
\* Admin actions on selected orders (orders/admin.py). The queryset loads
\* every selected order with its own copy of the user (select_related)
\* before the first one is processed, newest order first.
\* ------------------------------------------------------------------------
Max(S) == CHOOSE x \in S : \A y \in S : x >= y

RECURSIVE action_mark_picked_up(_, _, _, _, _)
action_mark_picked_up(D, sel, loaded, by, t) ==
    IF sel = {} THEN D
    ELSE LET i == Max(sel)
         IN  action_mark_picked_up(
                 mark_picked_up(D, i, loaded[D.orders[i].user], by, t),
                 sel \ {i}, loaded, by, t)

RECURSIVE action_mark_no_show(_, _, _, _)
action_mark_no_show(D, sel, loaded, t) ==
    IF sel = {} THEN D
    ELSE LET i == Max(sel)
         IN  action_mark_no_show(
                 mark_no_show(D, i, loaded[D.orders[i].user], t),
                 sel \ {i}, loaded, t)

AdminMarkPickedUp(sel, by) ==
    /\ sel # {}
    /\ is_staff(by)
    /\ StaffOp
    /\ \E D \in {action_mark_picked_up(DB, sel, users, by, now)} : Commit(D)
    /\ last' = Response("admin_picked_up", "ok", NoTime)
    /\ UNCHANGED <<now, cart, pc, reqDay>>

AdminMarkNoShow(sel, by) ==
    /\ sel # {}
    /\ is_staff(by)
    /\ StaffOp
    /\ \E D \in {action_mark_no_show(DB, sel, users, now)} :
          WithinBounds(D) /\ Commit(D)
    /\ last' = Response("admin_no_show", "ok", NoTime)
    /\ UNCHANGED <<now, cart, pc, reqDay>>

\* ------------------------------------------------------------------------
\* auto_mark_no_shows (management command)
\* ------------------------------------------------------------------------
\* A queryset that leaves out the filter on the service day.
SweepEligibleAnyDay(t) ==
    {i \in OrderIds :
        orders[i].status \notin
            ({"picked_up", "no_show"} \cup CANCELED_STATUSES)}

SweepEligible(t) ==
    {i \in OrderIds :
        /\ orders[i].service_day <= localdate(t)
        /\ orders[i].status \notin
               ({"picked_up", "no_show"} \cup CANCELED_STATUSES)}

\* A sweep that gives every order of the queryset the user row as it was
\* when the queryset was read.
RECURSIVE SweepOrdersStale(_, _, _)
SweepOrdersStale(D, todo, t) ==
    IF todo = {} THEN D
    ELSE LET i == Min(todo)
         IN  SweepOrdersStale(
                 Order_mark_no_show(D, i, users[D.orders[i].user], t),
                 todo \ {i}, t)

\* Each order of the queryset reads its user from the database when
\* mark_no_show first touches order.user.
RECURSIVE SweepOrders(_, _, _)
SweepOrders(D, todo, t) ==
    IF todo = {} THEN D
    ELSE LET i == Min(todo)
         IN  SweepOrders(
                 Order_mark_no_show(D, i, D.users[D.orders[i].user], t),
                 todo \ {i}, t)

Sweep(force, dry_run) ==
    /\ StaffOp
    /\ LET eligible == SweepEligible(now)
           early == ~force /\ localtime(now) < CUTOFF_HOUR * 60 + CUTOFF_MINUTE
       IN  \E D \in {IF early \/ dry_run THEN DB
                     ELSE SweepOrders(DB, eligible, now)} :
           /\ WithinBounds(D)
           /\ Commit(D)
           /\ last' = Response("sweep",
                               IF early THEN "too_early"
                               ELSE IF eligible = {} THEN "none"
                               ELSE IF dry_run THEN "dry_run" ELSE "marked",
                               NoTime)
           /\ UNCHANGED <<now, cart, pc, reqDay>>

\* ------------------------------------------------------------------------
\* auto_mark_no_shows run by two processes at once, on a database that
\* honours select_for_update(skip_locked=True): the rows of the queryset are
\* locked one by one as the SELECT meets them, a row another transaction
\* holds is skipped, and what a transaction writes shows to the others when
\* it commits. order.user is read without a lock.
\* ------------------------------------------------------------------------
Sweepers == {"cron", "shell"}

NoRows == [u \in Students |-> NewUser]

IdleSweep ==
    [phase |-> "idle", cursor |-> 0, claimed |-> {}, dry_run |-> FALSE,
     seen |-> NoRows]

SweepersIdle == \A p \in Sweepers : sweep[p].phase = "idle"

LockedByOther(p, i) ==
    \E q \in Sweepers \ {p} : i \in sweep[q].claimed

\* handle() up to the atomic block: the cutoff test and total = qs.count().
SweepBegin(p, force, dry_run) ==
    /\ nops > 0
    /\ nops' = nops - 1
    /\ sweep[p].phase = "idle"
    /\ LET early == ~force /\ localtime(now) < CUTOFF_HOUR * 60 + CUTOFF_MINUTE
           total == Cardinality(SweepEligible(now))
       IN  IF early \/ total = 0
           THEN /\ last' = Response("sweep_begin",
                                    IF early THEN "too_early" ELSE "none",
                                    NoTime)
                /\ UNCHANGED sweep
           ELSE /\ last' = Response("sweep_begin", "atomic", NoTime)
                /\ sweep' = [sweep EXCEPT ![p] =
                                [IdleSweep EXCEPT !.phase = "select",
                                                  !.cursor = 1,
                                                  !.dry_run = dry_run]]
    /\ UNCHANGED <<now, users, orders, blockEvents, cart, pc, reqDay,
                   site, code, reqToken, mark, cutoff>>

\* "for order in qs": the SELECT ... FOR UPDATE SKIP LOCKED meets one more
\* row. A dry run only prints the rows and leaves the atomic block.
SweepLockRow(p) ==
    /\ sweep[p].phase = "select"
    /\ LET i == sweep[p].cursor
           take == i \in SweepEligible(now) /\ ~LockedByOther(p, i)
           claimed == sweep[p].claimed \cup (IF take THEN {i} ELSE {})
           more == i < Len(orders)
       IN  /\ sweep' = [sweep EXCEPT ![p] =
                 IF more
                 THEN [@ EXCEPT !.cursor = i + 1, !.claimed = claimed]
                 ELSE IF sweep[p].dry_run \/ claimed = {}
                 THEN IdleSweep
                 ELSE [@ EXCEPT !.phase = "marking", !.claimed = claimed]]
           /\ last' = Response("sweep_select",
                               IF more THEN "row"
                               ELSE IF sweep[p].dry_run THEN "dry_run"
                               ELSE IF claimed = {} THEN "marked_none"
                               ELSE "locked",
                               NoTime)
    /\ UNCHANGED <<now, users, orders, blockEvents, cart, pc, reqDay, nops,
                   site, code, reqToken, mark, cutoff>>

\* order.mark_no_show reads order.user: the row as last committed.
SweepLoadUser(p) ==
    /\ sweep[p].phase = "marking"
    /\ sweep' = [sweep EXCEPT ![p] = [@ EXCEPT !.phase = "saving",
                                              !.seen = users]]
    /\ last' = Response("sweep_load", "ok", NoTime)
    /\ UNCHANGED <<now, users, orders, blockEvents, cart, pc, reqDay, nops,
                   site, code, reqToken, mark, cutoff>>

\* The saves of the loop, shown to the others when the atomic block commits:
\* the locked orders, and the user rows written from the values read.
SweepCommit(p) ==
    /\ sweep[p].phase = "saving"
    /\ \E D \in {SweepOrders([users |-> sweep[p].seen, orders |-> orders,
                               events |-> blockEvents],
                              sweep[p].claimed, now)} :
          /\ WithinBounds(D)
          /\ users' = [u \in Students |->
                          IF \E i \in sweep[p].claimed : orders[i].user = u
                          THEN D.users[u] ELSE users[u]]
          /\ orders' = D.orders
          /\ blockEvents' = D.events
    /\ sweep' = [sweep EXCEPT ![p] = IdleSweep]
    /\ last' = Response("sweep_commit", "marked", NoTime)
    /\ UNCHANGED <<now, cart, pc, reqDay, nops,
                   site, code, reqToken, mark, cutoff>>

\* ------------------------------------------------------------------------
\* The marking of no-shows save by save, inside the transaction of its
\* caller: the kitchen view and the admin action (services.mark_no_show) or
\* the sweep (Order.mark_no_show). For each order: the order row, then the
\* user's streak, then the block fields, then the BlockEvent.
\* ------------------------------------------------------------------------
Callers == {"view", "admin", "sweep"}

IdleMark ==
    [phase |-> "idle", caller |-> "", todo |-> {}, order |-> 0,
     loaded |-> NoRows, mem |-> NewUser, base |-> 0]

\* u.save(update_fields=["no_show_streak", "last_no_show_at"])
StreakSave(row, mem) ==
    [row EXCEPT !.no_show_streak = mem.no_show_streak,
                !.last_no_show_at = mem.last_no_show_at]

\* u.refresh_from_db(fields=["no_show_streak", "is_blocked"]), in the service
\* only.
refresh_from_db(caller, mem, row) ==
    IF caller = "sweep" THEN mem
    ELSE [mem EXCEPT !.no_show_streak = row.no_show_streak,
                     !.is_blocked = row.is_blocked]

MarkFinished(m) ==
    [IdleMark EXCEPT !.phase = IF m.todo = {} THEN "idle" ELSE "next",
                     !.caller = IF m.todo = {} THEN "" ELSE m.caller,
                     !.todo = m.todo,
                     !.loaded = IF m.todo = {} THEN NoRows ELSE m.loaded]

MarkBegin(caller, sel) ==
    /\ nops > 0
    /\ nops' = nops - 1
    /\ mark.phase = "idle"
    /\ sel # {}
    /\ caller = "view" => Cardinality(sel) = 1
    /\ caller = "sweep" => sel = SweepEligible(now)
    /\ mark' = [IdleMark EXCEPT !.phase = "next", !.caller = caller,
                                !.todo = sel, !.loaded = users]
    /\ last' = Response("mark_begin", caller, NoTime)
    /\ UNCHANGED <<now, users, orders, blockEvents, cart, pc, reqDay,
                   site, code, sweep, reqToken, cutoff>>

\* The order row is saved and order.user is read: the copy the admin
\* queryset loaded, or the row as it is now. The streak of the instance in
\* memory is incremented.
MarkOrderSave ==
    /\ mark.phase = "next"
    /\ LET i == IF mark.caller = "sweep" THEN Min(mark.todo)
                ELSE Max(mark.todo)
           u == orders[i].user
           read == IF mark.caller = "admin" THEN mark.loaded[u] ELSE users[u]
           mem == [read EXCEPT !.no_show_streak = @ + 1,
                               !.last_no_show_at = localdate(now)]
           rest == [mark EXCEPT !.todo = @ \ {i}]
       IN  IF mark.caller = "sweep" /\ orders[i].status = "no_show"
           THEN /\ mark' = MarkFinished(rest)
                /\ last' = Response("mark_order", "skipped", NoTime)
                /\ UNCHANGED orders
           ELSE /\ mem.no_show_streak <= MaxStreak
                /\ orders' = [orders EXCEPT ![i] =
                                 [@ EXCEPT !.status = "no_show",
                                           !.delivery_status = "undelivered"]]
                /\ mark' = [rest EXCEPT !.phase = "order_saved",
                                        !.order = i, !.mem = mem,
                                        !.base = read.no_show_streak]
                /\ last' = Response("mark_order", "saved", NoTime)
    /\ UNCHANGED <<now, users, blockEvents, cart, pc, reqDay, nops,
                   site, code, sweep, reqToken, cutoff>>

MarkStreakSave ==
    /\ mark.phase = "order_saved"
    /\ LET u == orders[mark.order].user
           row == StreakSave(users[u], mark.mem)
       IN  /\ users' = [users EXCEPT ![u] = row]
           /\ mark' = [mark EXCEPT
                         !.phase = "streak_saved",
                         !.mem = refresh_from_db(mark.caller, mark.mem, row)]
    /\ last' = Response("mark_streak", "saved", NoTime)
    /\ UNCHANGED <<now, orders, blockEvents, cart, pc, reqDay, nops,
                   site, code, sweep, reqToken, cutoff>>

\* The threshold is evaluated on the instance in memory; block() saves the
\* block fields together with the instance's streak fields.
MarkThreshold ==
    /\ mark.phase = "streak_saved"
    /\ LET u == orders[mark.order].user
       IN  IF /\ mark.mem.no_show_streak >= get_auto_block_threshold
              /\ ~mark.mem.is_blocked
           THEN /\ Len(blockEvents) < MaxEvents
                /\ users' = block(DB, u, mark.mem, "auto", NoUser,
                                  AutoBlockReason, now).users
                /\ mark' = [mark EXCEPT !.phase = "block_saved"]
                /\ last' = Response("mark_threshold", "blocked", NoTime)
           ELSE /\ mark' = MarkFinished(mark)
                /\ last' = Response("mark_threshold", "below", NoTime)
                /\ UNCHANGED users
    /\ UNCHANGED <<now, orders, blockEvents, cart, pc, reqDay, nops,
                   site, code, sweep, reqToken, cutoff>>

MarkBlockEvent ==
    /\ mark.phase = "block_saved"
    /\ LET u == orders[mark.order].user
       IN  blockEvents' = block(DB, u, mark.mem, "auto", NoUser,
                                AutoBlockReason, now).events
    /\ mark' = MarkFinished(mark)
    /\ last' = Response("mark_event", "logged", NoTime)
    /\ UNCHANGED <<now, users, orders, cart, pc, reqDay, nops,
                   site, code, sweep, reqToken, cutoff>>

\* ------------------------------------------------------------------------
\* The cutoff setting and its cache (calendar/models.py, signals.py).
\* get_cutoff_time statement by statement: cache.get, then on a miss the
\* read of the row, then cache.set. `overlapped` notes that a save of the
\* setting completed while the call was running.
\* ------------------------------------------------------------------------
CutoffChoices == {14 * 60, 16 * 60}

\* obj.cutoff_time if there is a row with one, else time(15, 0).
RowCutoff ==
    IF cutoff_time # NoTime THEN cutoff_time ELSE DEFAULT_CUTOFF_HOUR * 60

CutoffGet(r) ==
    /\ reader[r].phase = "idle"
    /\ IF cutoff_cache # NoTime
       THEN /\ last' = Response("get_cutoff", "hit", cutoff_cache)
            /\ UNCHANGED reader
       ELSE /\ last' = Response("cache_get", "miss", NoTime)
            /\ reader' = [reader EXCEPT ![r] =
                             [IdleReader EXCEPT !.phase = "read"]]
    /\ UNCHANGED <<now, users, orders, blockEvents, cart, pc, reqDay, nops,
                   site, code, sweep, reqToken, mark, cutoff_time,
                   cutoff_cache>>

CutoffRead(r) ==
    /\ reader[r].phase = "read"
    /\ reader' = [reader EXCEPT ![r] = [@ EXCEPT !.phase = "set",
                                                !.value = RowCutoff]]
    /\ last' = Response("cutoff_read", "ok", NoTime)
    /\ UNCHANGED <<now, users, orders, blockEvents, cart, pc, reqDay, nops,
                   site, code, sweep, reqToken, mark, cutoff_time,
                   cutoff_cache>>

CutoffSet(r) ==
    /\ reader[r].phase = "set"
    /\ cutoff_cache' = reader[r].value
    /\ reader' = [reader EXCEPT ![r] = IdleReader]
    /\ last' = Response("get_cutoff",
                        IF reader[r].overlapped THEN "miss_overlapped"
                        ELSE "miss",
                        reader[r].value)
    /\ UNCHANGED <<now, users, orders, blockEvents, cart, pc, reqDay, nops,
                   site, code, sweep, reqToken, mark, cutoff_time>>

\* post_save: cache.delete("hango.order_cutoff_time")
clear_cutoff_cache(entry) == NoTime

\* The admin saves the setting; the post_save receiver runs in the save.
CutoffSave(v) ==
    /\ nops > 0
    /\ nops' = nops - 1
    /\ cutoff_time' = v
    /\ cutoff_cache' = clear_cutoff_cache(cutoff_cache)
    /\ reader' = [r \in Readers |->
                    IF reader[r].phase = "idle" THEN reader[r]
                    ELSE [reader[r] EXCEPT !.overlapped = TRUE]]
    /\ last' = Response("cutoff_save", "ok", v)
    /\ UNCHANGED <<now, users, orders, blockEvents, cart, pc, reqDay,
                   site, code, sweep, reqToken, mark>>

\* The entry is 300 seconds old.
CutoffExpire ==
    /\ cutoff_cache # NoTime
    /\ cutoff_cache' = NoTime
    /\ last' = Response("cache_expire", "ok", NoTime)
    /\ UNCHANGED <<now, users, orders, blockEvents, cart, pc, reqDay, nops,
                   site, code, sweep, reqToken, mark, cutoff_time, reader>>

\* ------------------------------------------------------------------------
\* Block / unblock of a student (accounts/models.py, accounts/admin.py)
\* ------------------------------------------------------------------------
Block(u, by) ==
    /\ StaffOp
    /\ \E D \in {block(DB, u, users[u], "manual", by,
                       "Admin: acao de bloqueio", now)} :
           /\ WithinBounds(D)
           /\ Commit(D)
           /\ last' = Response("block", "ok", NoTime)
           /\ UNCHANGED <<now, cart, pc, reqDay>>

\* An unblock that any actor may perform.
AnyoneMayUnblock(by) == FALSE

PermissionDenied(by) == ~is_staff(by)

Unblock(u, by) ==
    /\ StaffOp
    /\ \E D \in {IF PermissionDenied(by) THEN DB
                 ELSE unblock(DB, u, by, "Admin: acao de desbloqueio")} :
           /\ WithinBounds(D)
           /\ Commit(D)
           /\ last' = Response("unblock",
                               IF PermissionDenied(by) THEN "denied" ELSE "ok",
                               NoTime)
           /\ UNCHANGED <<now, cart, pc, reqDay>>

Recalculate(u) ==
    /\ StaffOp
    /\ \E D \in {recalculate_no_show_streak(DB, u, now)} : Commit(D)
    /\ last' = Response("recalculate", "ok", NoTime)
    /\ UNCHANGED <<now, cart, pc, reqDay>>

Init(maxOps) ==
    /\ now = Min(TimesOfDay)
    /\ users = [u \in Students |-> NewUser]
    /\ orders = <<>>
    /\ blockEvents = <<>>
    /\ cart = [u \in Students |-> [i \in Items |-> 0]]
    /\ pc = [r \in Requests |-> "idle"]
    /\ reqDay = [r \in Requests |-> NoTime]
    /\ last = Response("init", "ok", NoTime)
    /\ nops = maxOps
    /\ student_classes = [u \in Students |-> {"integral"}]
    /\ DiaSemAtendimento = {}
    /\ extraLunchDays = {}
    /\ code = <<>>
    /\ sweep = [p \in Sweepers |-> IdleSweep]
    /\ reqToken = [r \in Requests |-> NoToken]
    /\ mark = IdleMark
    /\ cutoff_time = NoTime
    /\ cutoff_cache = NoTime
    /\ reader = [r \in Readers |-> IdleReader]

\* The student's side: cart and checkout, one request at a time, while the
\* clock moves maxTicks times.
Ordering(maxTicks) ==
    \/ Tick(maxTicks)
    \/ \E u \in Students, i \in DailyItems : CartAdd(u, i)
    \/ CheckoutStart(1)
    \/ CheckoutCreate(1)

Pickups ==
    \/ \E i \in OrderIds, by \in Operators :
          SetDeliveryStatus(i, "delivered", by)
    \/ \E raw \in ScanInputs, by \in Operators : Scan(raw, by)
    \/ \E sel \in SUBSET OrderIds, by \in Operators : AdminMarkPickedUp(sel, by)

NoShows ==
    \/ \E i \in OrderIds, by \in Operators :
          SetDeliveryStatus(i, "undelivered", by)
    \/ \E sel \in SUBSET OrderIds, by \in Operators : AdminMarkNoShow(sel, by)
    \/ \E force, dry_run \in BOOLEAN : Sweep(force, dry_run)

Next ==
    \/ Ordering(MaxTicks)
    \/ Pickups
    \/ NoShows
    \/ \E i \in OrderIds, new_status \in STATUS : UpdateStatus(i, new_status)
    \/ \E u \in Students, by \in Operators : Block(u, by)
    \/ \E u \in Students, by \in Operators : Unblock(u, by)
    \/ \E u \in Students : Recalculate(u)

Spec == Init(MaxOps) /\ [][Next]_vars

NextCheckout ==
    \/ Tick(MaxTicks)
    \/ \E u \in Students, i \in DailyItems : CartAdd(u, i)
    \/ \E u \in Students, i \in DailyItems : CartRemove(u, i)
    \/ \E r \in Requests : CheckoutStart(r)
    \/ \E r \in Requests : CheckoutCreate(r)
    \/ \E i \in OrderIds, new_status \in STATUS : UpdateStatus(i, new_status)
    \/ \E u \in Students, by \in Operators : Block(u, by)
    \/ \E u \in Students, by \in Operators : Unblock(u, by)

SpecCheckout == Init(MaxOps) /\ [][NextCheckout]_vars

NextNoShow == Ordering(MaxTicksStreak) \/ NoShows

SpecNoShow == Init(MaxOpsStreak) /\ [][NextNoShow]_vars

NextSweep ==
    \/ Ordering(MaxTicksStreak)
    \/ \E force, dry_run \in BOOLEAN : Sweep(force, dry_run)
    \/ Pickups

SpecSweep == Init(MaxOpsStreak) /\ [][NextSweep]_vars

\* Orders are placed while no sweep runs; then the sweep commands run, two
\* at a time at most.
NextSweepRace ==
    \/ SweepersIdle /\ Ordering(MaxTicksStreak)
    \/ \E p \in Sweepers, force, dry_run \in BOOLEAN :
          SweepBegin(p, force, dry_run)
    \/ \E p \in Sweepers : SweepLockRow(p)
    \/ \E p \in Sweepers : SweepLoadUser(p)
    \/ \E p \in Sweepers : SweepCommit(p)

SpecSweepRace == Init(MaxOpsStreak) /\ [][NextSweepRace]_vars

\* Orders are placed, markings run save by save, one at a time, and the
\* streak may be recomputed between two markings.
NextMark ==
    \/ mark.phase = "idle" /\ Ordering(MaxTicksStreak)
    \/ \E caller \in Callers, sel \in SUBSET OrderIds : MarkBegin(caller, sel)
    \/ MarkOrderSave
    \/ MarkStreakSave
    \/ MarkThreshold
    \/ MarkBlockEvent
    \/ mark.phase = "idle" /\ \E u \in Students : Recalculate(u)

SpecMark == Init(MaxOpsStreak) /\ [][NextMark]_vars

\* Two checkouts of a student that overlap, the later one started after the
\* cutoff, each drawing its token before it inserts its order.
NextToken ==
    \/ CutoffPasses(MaxTicks)
    \/ \E u \in Students, i \in DailyItems : CartAdd(u, i)
    \/ \E r \in Requests : CheckoutStart(r)
    \/ \E r \in Requests : CheckoutDraw(r)
    \/ \E r \in Requests : CheckoutInsert(r)

SpecToken == Init(MaxOps) /\ [][NextToken]_vars

\* Blocking and unblocking of students who may have missed orders.
NextBlock ==
    \/ Ordering(MaxTicks)
    \/ NoShows
    \/ \E u \in Students, by \in Operators : Block(u, by)
    \/ \E u \in Students, by \in Operators : Unblock(u, by)

SpecBlock == Init(MaxOpsStreak) /\ [][NextBlock]_vars

\* Reads of the cutoff by two web workers while the admin saves the setting.
NextCutoff ==
    \/ \E r \in Readers : CutoffGet(r)
    \/ \E r \in Readers : CutoffRead(r)
    \/ \E r \in Readers : CutoffSet(r)
    \/ \E v \in CutoffChoices : CutoffSave(v)
    \/ CutoffExpire

SpecCutoff == Init(MaxOpsStreak) /\ [][NextCutoff]_vars

\* Every way a student gets blocked or unblocked: by staff, or by the third
\* no-show in a row.
NextAudit ==
    \/ Ordering(MaxTicksStreak)
    \/ NoShows
    \/ \E u \in Students, by \in Operators : Block(u, by)
    \/ \E u \in Students, by \in Operators : Unblock(u, by)

SpecAudit == Init(MaxOpsStreak) /\ [][NextAudit]_vars

\* The cart and the checkout of one student, with every way to fill the cart.
NextCart ==
    \/ Tick(MaxTicks)
    \/ \E u \in Students, i \in Items : CartAdd(u, i)
    \/ \E u \in Students, i \in Items : MenuAddToCart(u, i)
    \/ \E u \in Students, i \in Items : CartRemove(u, i)
    \/ CheckoutStart(1)
    \/ CheckoutCreate(1)

SpecCart == Init(MaxOps) /\ [][NextCart]_vars

\* The service-day resolver under every configuration of the model: the
\* instant, the student's override, the classes and the closures are drawn
\* at the start; staff may block and unblock the student.
ScheduleDays == {367, 368, 369}
ScheduleTimes == {9 * 60, 14 * 60 + 59, 15 * 60, 16 * 60}
OverrideMasks == {0, 16, 96}
ClosureRows ==
    { [data |-> 368, repete_anualmente |-> FALSE],
      [data |-> 3, repete_anualmente |-> TRUE],
      [data |-> 3, repete_anualmente |-> FALSE],
      [data |-> 733, repete_anualmente |-> TRUE],
      [data |-> 371, repete_anualmente |-> FALSE] }
ClosureTables ==
    {T \in SUBSET ClosureRows : \A c, d \in T : c.data = d.data => c = d}

InitSchedule ==
    /\ now \in {d * MinutesPerDay + m : d \in ScheduleDays, m \in ScheduleTimes}
    /\ \E enabled \in BOOLEAN, mask \in OverrideMasks :
          users = [u \in Students |->
                     [NewUser EXCEPT !.lunch_days_override_enabled = enabled,
                                     !.lunch_days_override_mask = mask]]
    /\ student_classes \in [Students -> SUBSET Classes]
    /\ DiaSemAtendimento \in ClosureTables
    /\ extraLunchDays = {}
    /\ orders = <<>>
    /\ blockEvents = <<>>
    /\ cart = [u \in Students |-> [i \in Items |-> 0]]
    /\ pc = [r \in Requests |-> "idle"]
    /\ reqDay = [r \in Requests |-> NoTime]
    /\ last = Response("init", "ok", NoTime)
    /\ nops = MaxOpsSchedule
    /\ code = <<>>
    /\ sweep = [p \in Sweepers |-> IdleSweep]
    /\ reqToken = [r \in Requests |-> NoToken]
    /\ mark = IdleMark
    /\ cutoff_time = NoTime
    /\ cutoff_cache = NoTime
    /\ reader = [r \in Readers |-> IdleReader]

\* The checkout page asks for the service day of the student.
Resolve(u) ==
    /\ last' = Response("resolve", "ok", next_eligible_service_day(u, now))
    /\ UNCHANGED <<now, users, orders, blockEvents, cart, pc, reqDay, nops, env>>

NextSchedule ==
    \/ \E u \in Students : Resolve(u)
    \/ \E u \in Students, by \in Operators : Block(u, by)
    \/ \E u \in Students, by \in Operators : Unblock(u, by)

SpecSchedule == InitSchedule /\ [][NextSchedule]_vars

\* Orders over several days, marked at the counter, and the streak
\* recomputed from the history.
NextRecalc ==
    \/ Ordering(MaxTicksStreak)
    \/ \E i \in OrderIds, by \in Operators :
          SetDeliveryStatus(i, "delivered", by)
    \/ \E i \in OrderIds, by \in Operators :
          SetDeliveryStatus(i, "undelivered", by)
    \/ \E u \in Students : Recalculate(u)

SpecRecalc == Init(MaxOpsStreak) /\ [][NextRecalc]_vars

\* The resolver when classes have been granted extra lunch days: a Saturday
\* for one class, a Sunday for another, a Friday for the third.
ExtraRows ==
    { [student_class |-> "manha", date |-> 369],
      [student_class |-> "integral", date |-> 370],
      [student_class |-> "tarde", date |-> 368] }
ExtraClosures == { {}, {[data |-> 369, repete_anualmente |-> FALSE]} }

InitExtra ==
    /\ now \in {d * MinutesPerDay + m : d \in ScheduleDays, m \in ScheduleTimes}
    /\ \E enabled \in BOOLEAN, mask \in OverrideMasks :
          users = [u \in Students |->
                     [NewUser EXCEPT !.lunch_days_override_enabled = enabled,
                                     !.lunch_days_override_mask = mask]]
    /\ student_classes \in [Students -> SUBSET Classes]
    /\ DiaSemAtendimento \in ExtraClosures
    /\ extraLunchDays \in SUBSET ExtraRows
    /\ orders = <<>>
    /\ blockEvents = <<>>
    /\ cart = [u \in Students |-> [i \in Items |-> 0]]
    /\ pc = [r \in Requests |-> "idle"]
    /\ reqDay = [r \in Requests |-> NoTime]
    /\ last = Response("init", "ok", NoTime)
    /\ nops = MaxOpsSchedule
    /\ code = <<>>
    /\ sweep = [p \in Sweepers |-> IdleSweep]
    /\ reqToken = [r \in Requests |-> NoToken]
    /\ mark = IdleMark
    /\ cutoff_time = NoTime
    /\ cutoff_cache = NoTime
    /\ reader = [r \in Readers |-> IdleReader]

SpecExtra == InitExtra /\ [][NextSchedule]_vars

\* Generation and validation of EAN-13 codes.
NextEan ==
    \/ \E d12 \in Payloads : Generate(d12)
    \/ \E p \in 1..13, ch \in Digit \cup {Dash} : Replace(p, ch)
    \/ Cut
    \/ \E d \in Digit : Pad(d)

SpecEan == Init(MaxOps) /\ [][NextEan]_vars

\* ------------------------------------------------------------------------
\* Properties
\* ------------------------------------------------------------------------
OrdersOf(os, u, day) ==
    {i \in 1..Len(os) : os[i].user = u /\ os[i].service_day = day}

C2_NoShowIdempotent ==
    [][/\ last'.op = "undelivered" =>
            \A i \in OrderIds, by \in Operators :
                (orders[i].status = "no_show"
                    /\ SetDeliveryStatus(i, "undelivered", by))
                => UNCHANGED <<users, orders, blockEvents>>
       /\ last'.op = "admin_no_show" =>
            \A sel \in SUBSET OrderIds, by \in Operators :
                ((\A i \in sel : orders[i].status = "no_show")
                    /\ AdminMarkNoShow(sel, by))
                => UNCHANGED <<users, orders, blockEvents>>
       /\ last'.op = "sweep" =>
            \A force, dry_run \in BOOLEAN :
                ((\A i \in OrderIds : orders[i].status = "no_show")
                    /\ Sweep(force, dry_run))
                => UNCHANGED <<users, orders, blockEvents>>
      ]_vars

\* C3: markPickedUp on an order that is already picked_up, by any actor and
\* through the kitchen toggle, the scanner or the admin action, leaves the
\* order (status, delivered_at, delivered_by) and the student's streak as
\* they are.
C3_PickedUpIdempotent ==
    [][/\ last'.op = "delivered" =>
            \A i \in OrderIds, by \in Operators :
                (orders[i].status = "picked_up"
                    /\ SetDeliveryStatus(i, "delivered", by))
                => UNCHANGED <<users, orders, blockEvents>>
       /\ last'.op = "scan" =>
            \A raw \in ScanInputs, by \in Operators :
                ((\A i \in OrdersWithToken(Stripped[raw]) :
                        orders[i].status = "picked_up")
                    /\ Scan(raw, by))
                => UNCHANGED <<users, orders, blockEvents>>
       /\ last'.op = "admin_picked_up" =>
            \A sel \in SUBSET OrderIds, by \in Operators :
                AdminMarkPickedUp(sel, by) =>
                    /\ \A i \in sel : orders[i].status = "picked_up"
                                         => orders'[i] = orders[i]
                    /\ (\A i \in sel : orders[i].status = "picked_up")
                           => UNCHANGED <<users, orders, blockEvents>>
      ]_vars

\* The only order was picked up at an earlier instant, the student has missed
\* nothing since, and the kitchen has just marked it delivered again.
C3_Witness ==
    /\ last.op = "delivered"
    /\ Len(orders) = 1
    /\ orders[1].status = "picked_up"
    /\ orders[1].delivered_at # NoTime
    /\ orders[1].delivered_at < now

StatusOrders(u, status) ==
    {i \in OrderIds : orders[i].user = u /\ orders[i].status = status}

BlockEventsOf(u, action) ==
    {k \in 1..Len(blockEvents) :
        blockEvents[k].user = u /\ blockEvents[k].action = action}

\* C4: a student starts unblocked with streak 0 and nothing but markNoShow
\* on pending orders happens to the student's orders (kitchen toggle, admin
\* action, sweep; no pickup). Once three distinct orders have been marked
\* the student is blocked, with source auto and no actor, and the log holds
\* exactly one BlockEvent, which is that automatic block; further no-shows
\* add no BlockEvent.
C4_AutoBlockAtThreshold ==
    \A u \in Students :
        /\ Cardinality(StatusOrders(u, "no_show")) >= get_auto_block_threshold
              => /\ users[u].is_blocked
                 /\ users[u].block_source = "auto"
                 /\ users[u].blocked_by = NoUser
                 /\ Cardinality(BlockEventsOf(u, "block")) = 1
        /\ \A k \in BlockEventsOf(u, "block") :
              blockEvents[k].source = "auto" /\ blockEvents[k].by_user = NoUser
        /\ Cardinality(BlockEventsOf(u, "block")) <= 1

\* C5: while the student has never picked an order up and only the sweep
\* marks no-shows, the streak is the number of the student's orders swept to
\* no_show, one per service day, none later than today; and any markPickedUp
\* on an order that is not yet picked_up leaves the streak at 0.
C5_SweepStreak ==
    [][/\ \A u \in Students :
            LET swept == {i \in 1..Len(orders') :
                            /\ orders'[i].user = u
                            /\ orders'[i].status = "no_show"}
            IN  /\ \A i \in swept : orders'[i].service_day <= localdate(now')
                /\ \A i, j \in swept :
                      orders'[i].service_day = orders'[j].service_day => i = j
                /\ users'[u].last_pickup_at = NoTime
                      => users'[u].no_show_streak = Cardinality(swept)
       /\ \A i \in OrderIds :
            (orders[i].status # "picked_up" /\ orders'[i].status = "picked_up")
            => users'[orders[i].user].no_show_streak = 0
      ]_vars

\* The orders of days 1 and 2 were swept to no_show, the second on day 2
\* (the streak reached 2), and then a later order was picked up.
C5_Witness ==
    /\ \E i, j \in StatusOrders("ana", "no_show") :
          orders[i].service_day = 1 /\ orders[j].service_day = 2
    /\ \E i \in StatusOrders("ana", "picked_up") : orders[i].service_day > 2
    /\ users["ana"].last_no_show_at = 2
    /\ users["ana"].no_show_streak = 0
    /\ last.op \in {"delivered", "scan", "admin_picked_up"}

\* C6: an order's status only moves forward: a pending order may become
\* picked_up, no_show or canceled, and an order that is picked_up, no_show
\* or canceled keeps its status whatever operation runs (scan, kitchen
\* toggle, legacy toggler, admin action, sweep).
C6_StatusMovesForward ==
    [][\A i \in OrderIds :
         orders[i].status # "pending" => orders'[i].status = orders[i].status
      ]_vars

\* C7: a blocked student cannot place an order: while the student's blocked
\* flag is true a checkout does not pass its validations, and the atomic
\* block of a checkout creates no Order row and does not answer success.
C7_BlockedCannotOrder ==
    [][\A r \in Requests :
         users[RequestUser(r)].is_blocked =>
            /\ pc[r] = "idle" => pc'[r] = "idle"
            /\ (pc[r] = "create" /\ pc'[r] = "idle") =>
                  (orders' = orders /\ last'.kind # "success")
      ]_vars

\* C8: an unblock by a staff actor leaves the student not blocked with
\* streak 0, whatever the streak was, and appends exactly one BlockEvent: an
\* unblock of that student with that actor recorded.
C8_StaffUnblock ==
    [][last'.op = "unblock" =>
         \A u \in Students, by \in Operators :
            (is_staff(by) /\ Unblock(u, by)) =>
                /\ last'.kind = "ok"
                /\ ~users'[u].is_blocked
                /\ users'[u].no_show_streak = 0
                /\ Len(blockEvents') = Len(blockEvents) + 1
                /\ SubSeq(blockEvents', 1, Len(blockEvents)) = blockEvents
                /\ blockEvents'[Len(blockEvents')].user = u
                /\ blockEvents'[Len(blockEvents')].action = "unblock"
                /\ blockEvents'[Len(blockEvents')].by_user = by
      ]_vars

\* A student with a missed order was blocked and staff has just unblocked
\* the student: the streak is back to 0 and the log ends with the unblock.
C8_Witness ==
    /\ last.op = "unblock" /\ last.kind = "ok"
    /\ StatusOrders("ana", "no_show") # {}
    /\ users["ana"].last_no_show_at # NoTime
    /\ ~users["ana"].is_blocked
    /\ users["ana"].no_show_streak = 0
    /\ Len(blockEvents) = 2
    /\ blockEvents[1].action = "block"
    /\ blockEvents[2].action = "unblock" /\ blockEvents[2].by_user = "staff"

\* C9: an unblock by an actor who is not staff is refused with the
\* permission error and changes nothing: the blocked flag, the streak and the
\* BlockEvents stay as they are.
C9_NonStaffUnblock ==
    [][last'.op = "unblock" =>
         \A u \in Students, by \in Operators :
            (~is_staff(by) /\ Unblock(u, by)) =>
                /\ last'.kind = "denied"
                /\ UNCHANGED <<users, orders, blockEvents>>
      ]_vars

\* The helper has just been refused the unblock of a blocked student, who is
\* still blocked.
C9_Witness ==
    /\ last.op = "unblock" /\ last.kind = "denied"
    /\ users["ana"].is_blocked
    /\ Len(blockEvents) = 1
    /\ blockEvents[1].action = "block"

\* C10: canceling an order frees the student's slot of that service day: a
\* checkout is answered with the duplicate-order message only if the student
\* has an order of that day that is not canceled.
C10_CancelFreesSlot ==
    (last.op \in {"checkout", "checkout_atomic"} /\ last.kind = "duplicate")
    => \E i \in OrdersOf(orders, "ana", last.day) :
          orders[i].status \notin CANCELED_STATUSES

\* C11: a checkout whose cart is empty, has a line of more than one unit, has
\* an item without category or has two items of one category is rejected
\* before the atomic block: no order (and so no order line) is created, the
\* cart stays as it was and no insert is pending.
BadCart(c) ==
    LET lines == _cart_lines(c)
    IN  \/ lines = {}
        \/ \E i \in lines : c[i] > 1
        \/ \E i \in lines : ItemCategory(i) = ""
        \/ \E i, j \in lines : i # j /\ ItemCategory(i) = ItemCategory(j)

C11_BadCartRejected ==
    [][\A r \in Requests :
          (CheckoutStart(r) /\ BadCart(cart[RequestUser(r)])) =>
              /\ last'.kind \in {"paused", "empty_cart", "quantity",
                                 "uncategorized", "category_conflict"}
              /\ orders' = orders
              /\ cart' = cart
              /\ pc' = pc
      ]_vars

\* A checkout has just been refused for two dishes of the lunch category,
\* one unit each, that are still in the cart.
C11_Witness ==
    /\ last.op = "checkout" /\ last.kind = "category_conflict"
    /\ cart["ana"]["prato"] = 1 /\ cart["ana"]["sopa"] = 1
    /\ cart["ana"]["avulso"] = 0
    /\ \A r \in Requests : pc[r] = "idle"
\* C12: every generated token is accepted by the validation; a text is
\* accepted only if it has exactly 13 digits and its last digit is the
\* check digit (weights 1 and 3) of the first twelve; a generated token with
\* one digit replaced by a different one is rejected.
C12_ChecksumRoundTrip ==
    /\ last.op = "generate" => last.kind = "valid"
    /\ last.op = "replace" => last.kind = "invalid"
    /\ last.kind = "valid" =>
          /\ Len(code) = 13
          /\ \A i \in 1..13 : code[i] \in 0..9
          /\ code[13] = models_ean13_check_digit(SubSeq(code, 1, 12))

\* A generated token whose third digit, a 3, was replaced by an 8 has just
\* been rejected.
C12_Witness ==
    /\ last.op = "replace" /\ last.kind = "invalid"
    /\ Len(code) = 13
    /\ code[3] = 8
    /\ SubSeq(code, 4, 12) = SubSeq(PayloadTail, 2, 10)
\* The posted texts that are valid EAN-13 codes once their non-digits are
\* stripped.
ValidInputs == {raw \in ScanInputs : _ean13_is_valid(StripNonDigits(raw))}

\* The orders of today whose pickup_token is what the scan keeps of raw.
ScannedToday(raw) ==
    {i \in OrderIds :
        /\ orders[i].pickup_token # NoToken
        /\ Ean13(orders[i].pickup_token) = StripNonDigits(raw)
        /\ orders[i].service_day = localdate(now)}

\* C13: redemption is idempotent: a scan of the token of an order of today
\* answers Delivered or AlreadyDelivered; the scan that answers Delivered is
\* the one that sets delivered_at (to now) and resets the streak, so that
\* every later scan of the token answers AlreadyDelivered; a scan that
\* answers AlreadyDelivered changes nothing.
C13_RedemptionIdempotent ==
    [][last'.op = "scan" =>
         \A raw \in ScanInputs, by \in Operators :
            Scan(raw, by) =>
                \A i \in ScannedToday(raw) :
                    /\ last'.kind \in {"ok", "already"}
                    /\ last'.kind = "ok" =>
                          /\ orders[i].delivered_at = NoTime
                          /\ orders'[i].delivered_at = now
                          /\ orders'[i].status = "picked_up"
                          /\ users'[orders[i].user].no_show_streak = 0
                    /\ last'.kind = "already" =>
                          UNCHANGED <<users, orders, blockEvents>>
      ]_vars

\* C14: a scan answers Delivered exactly when the posted text, stripped of
\* its non-digits, is a valid EAN-13 code, an order of today carries it and
\* that order has no delivered_at; it answers InvalidFormat exactly when the
\* stripped text is no valid code; every other answer is NotFound, WrongDay
\* or AlreadyDelivered, and every answer but Delivered leaves the orders, the
\* students and the block events as they are.
C14_ScanOutcome ==
    [][last'.op = "scan" =>
         \A raw \in ScanInputs, by \in Operators :
            Scan(raw, by) =>
                /\ last'.kind = "ok" <=>
                      /\ raw \in ValidInputs
                      /\ \E i \in ScannedToday(raw) :
                            orders[i].delivered_at = NoTime
                /\ last'.kind = "error" <=> raw \notin ValidInputs
                /\ last'.kind \in
                      {"ok", "error", "notfound", "wrongday", "already"}
                /\ last'.kind # "ok" =>
                      UNCHANGED <<users, orders, blockEvents>>
      ]_vars

\* The scanner has just delivered an order of today that was pending.
C14_Witness ==
    /\ last.op = "scan" /\ last.kind = "ok"
    /\ \E i \in OrderIds :
          /\ orders[i].service_day = localdate(now)
          /\ orders[i].status = "picked_up"
          /\ orders[i].delivered_at = now
\* The base day of the scan at instant t, with the default cut-off of 15:00.
BaseDay(t) ==
    localdate(t) + (IF localtime(t) < DEFAULT_CUTOFF_HOUR * 60 THEN 1 ELSE 2)

\* The days of the window of 31 days from the base day on which student u
\* has lunch and the kitchen is open.
EligibleDays(u, t) ==
    {d \in BaseDay(t)..(BaseDay(t) + 30) :
        /\ \/ HasBit(_user_lunch_mask(u), 2 ^ (d % 7))
           \/ d \in ExtraLunchDay(u)
        /\ ~ \E c \in DiaSemAtendimento :
               \/ c.data = d
               \/ c.repete_anualmente /\ c.data % 365 = d % 365}

\* C15: the base day is today + 1 strictly before the cut-off and today + 2
\* from the cut-off instant on: the service day returned is never before the
\* base day, so never today or earlier, and it is the base day whenever the
\* base day is eligible.
C15_BaseDay ==
    last.op = "resolve" =>
        /\ last.day >= BaseDay(now)
        /\ last.day > localdate(now)
        /\ \A u \in Students :
              BaseDay(now) \in EligibleDays(u, now) => last.day = BaseDay(now)

\* The service day was asked for at 15:00 sharp and is the day after
\* tomorrow.
C15_Witness ==
    /\ last.op = "resolve"
    /\ localtime(now) = 15 * 60
    /\ last.day = localdate(now) + 2

\* C16: the service day returned is the first day of the 31 days from the
\* base day whose weekday bit is in the student's resolved mask (or that is
\* an extra lunch day) and that is no closure, by exact date or, for a
\* closure that repeats every year, by month and day; when there is no such
\* day it is the base day.
C16_FirstEligibleDay ==
    last.op = "resolve" =>
        \A u \in Students :
            last.day = IF EligibleDays(u, now) = {} THEN BaseDay(now)
                       ELSE Min(EligibleDays(u, now))

\* Asked on a Thursday morning by a student of the Monday-to-Friday class,
\* with the Friday closed by a closure of an earlier year that repeats: the
\* service day is the Monday after.
C16_Witness ==
    /\ last.op = "resolve"
    /\ now = 367 * MinutesPerDay + 9 * 60
    /\ ~users["ana"].lunch_days_override_enabled
    /\ student_classes["ana"] = {"integral"}
    /\ DiaSemAtendimento = {[data |-> 3, repete_anualmente |-> TRUE]}
    /\ last.day = 371
\* C20: the mask of a student is the student's override mask exactly when
\* the override is enabled (a mask of 0 included); otherwise the bitwise OR
\* of the masks of the student's classes; and for a student with no enabled
\* override and no class it is the default mask, Monday to Friday.
C20_MaskResolution ==
    \A u \in Students :
        LET m == _user_lunch_mask(u)
        IN  IF users[u].lunch_days_override_enabled
            THEN m = users[u].lunch_days_override_mask
            ELSE IF student_classes[u] # {}
            THEN /\ m \in 0..127
                 /\ \A b \in {1, 2, 4, 8, 16, 32, 64} :
                       HasBit(m, b) <=>
                           \E c \in student_classes[u] : HasBit(days_mask(c), b)
            ELSE m = MON_FRI_MASK

\* ------------------------------------------------------------------------
\* C17: a sweep that runs for real (after the cutoff or forced, not a dry
\* run) turns exactly the pending orders whose service day is today or
\* earlier into no_show, adding one to the student's streak for each of
\* them; every other order (future service day, picked_up, no_show or
\* canceled) is left as it was, and a sweep that finds no such order changes
\* no order, no user row and no BlockEvent.
\* ------------------------------------------------------------------------
DueOrders ==
    {i \in OrderIds : /\ orders[i].service_day <= localdate(now)
                      /\ orders[i].status = "pending"}

SweptOrders(u) ==
    {i \in OrderIds : orders[i].user = u /\ orders[i].status = "no_show"}

AutoBlockEvents(u) ==
    {k \in 1..Len(blockEvents) : /\ blockEvents[k].user = u
                                 /\ blockEvents[k].action = "block"
                                 /\ blockEvents[k].source = "auto"}

C18_NoDoubleClaim ==
    \A p, q \in Sweepers :
        p # q => sweep[p].claimed \cap sweep[q].claimed = {}

C18_ConcurrentSweeps ==
    /\ C18_NoDoubleClaim
    /\ SweepersIdle =>
          \A u \in Students :
              /\ users[u].no_show_streak = Cardinality(SweptOrders(u))
              /\ Cardinality(AutoBlockEvents(u)) <= 1

\* ------------------------------------------------------------------------
\* C19: no two orders carry the same pickup_token and no order is without
\* one, also when two checkouts that overlap drew the same candidate; a
\* checkout whose draws all collide, or whose insert is refused, saves no
\* order.
\* ------------------------------------------------------------------------
TokensDistinct ==
    \A i, j \in OrderIds :
        i # j => orders[i].pickup_token # orders[j].pickup_token

C19_TokensCollisionFree ==
    [][/\ TokensDistinct'
       /\ \A i \in 1..Len(orders') : orders'[i].pickup_token \in Tokens
       /\ last'.kind \in {"alloc_error", OnIntegrityError} =>
             UNCHANGED orders]_vars

\* A checkout for another day drew the token an overlapping checkout also
\* drew; its insert was refused and the table holds the other order only.
C19_Witness ==
    /\ last.op = "checkout_insert"
    /\ last.kind = OnIntegrityError
    /\ orders # <<>>
    /\ \A i \in OrderIds : orders[i].service_day # last.day

\* ------------------------------------------------------------------------
\* C21: a date granted as an extra lunch day to a class of the student is a
\* lunch day for the student whatever the resolved mask (0 included): when
\* the base day is such a date and no closure, the resolver returns it.
\* ------------------------------------------------------------------------
GrantedDays(u) ==
    {g.date : g \in {x \in extraLunchDays :
                        x.student_class \in student_classes[u]}}

C21_ExtraLunchDay ==
    last.op = "resolve" =>
        \A u \in Students : \A d \in GrantedDays(u) :
            /\ is_lunch_day_for_user(u, d)
            /\ (d = BaseDay(now) /\ ~is_closed(d)) => last.day = d

\* The student's mask is 0, the base day is a Saturday granted to the
\* student's class, and the resolver returned it.
C21_Witness ==
    /\ last.op = "resolve"
    /\ _user_lunch_mask("ana") = 0
    /\ BaseDay(now) = 369
    /\ 369 \in GrantedDays("ana")
    /\ last.day = 369

\* ------------------------------------------------------------------------
\* C22: the recomputation stores the number of the student's most recent
\* consecutive no_show orders: over the non-canceled orders with service
\* day up to today, newest first, it counts the no_show ones and stops at
\* the first picked_up one.
\* ------------------------------------------------------------------------
RECURSIVE ConsecutiveNoShows(_, _)
ConsecutiveNoShows(u, day) ==
    IF day < 0 THEN 0
    ELSE LET here == {i \in OrderIds : /\ orders[i].user = u
                                       /\ orders[i].service_day = day
                                       /\ orders[i].status # "canceled"}
         IN  IF \E i \in here : orders[i].status = "picked_up" THEN 0
             ELSE (IF \E i \in here : orders[i].status = "no_show"
                   THEN 1 ELSE 0) + ConsecutiveNoShows(u, day - 1)

C22_RecalculatedStreak ==
    last.op = "recalculate" =>
        \A u \in Students :
            users[u].no_show_streak = ConsecutiveNoShows(u, localdate(now))

\* ------------------------------------------------------------------------
\* C23: when a marking blocks the student, the streak on the student's row
\* already holds the incremented value (the value the marking read, plus
\* one), and the save of the block does not lower it.
\* ------------------------------------------------------------------------
C23_StreakBeforeBlock ==
    [][\A u \in Students :
          (~users[u].is_blocked /\ users'[u].is_blocked
             /\ users'[u].block_source = "auto") =>
              /\ users[u].no_show_streak = mark.base + 1
              /\ users'[u].no_show_streak >= users[u].no_show_streak]_vars

\* A marking has saved the block of the student and has yet to write the
\* BlockEvent: the row holds the third no-show.
C23_Witness ==
    /\ mark.phase = "block_saved"
    /\ users["ana"].is_blocked
    /\ users["ana"].no_show_streak = mark.base + 1
    /\ blockEvents = <<>>

\* ------------------------------------------------------------------------
\* C24: an order gets its pickup_token when it is created and keeps it: no
\* step removes an order or changes the token of an order that exists.
\* ------------------------------------------------------------------------
C24_TokenStable ==
    [][/\ Len(orders') >= Len(orders)
       /\ \A i \in OrderIds :
             orders'[i].pickup_token = orders[i].pickup_token
       /\ \A i \in 1..Len(orders') : orders'[i].pickup_token \in Tokens]_vars

\* An order that was marked and then picked up at the counter by its token.
C24_Witness ==
    /\ last.op = "scan"
    /\ last.kind = "ok"
    /\ \E i \in OrderIds : /\ orders[i].status = "picked_up"
                           /\ orders[i].delivery_status = "delivered"
                           /\ orders[i].pickup_token \in Tokens
                           /\ nops = 0

\* ------------------------------------------------------------------------
\* C25: whenever a student becomes blocked, and whenever staff calls block,
\* the step appends exactly one BlockEvent(action=block) carrying the
\* source, actor and reason written on the row; the actor is kept only if
\* staff and is null for an automatic block; the log only grows; and a
\* blocked student's latest event is a block.
\* ------------------------------------------------------------------------
LastEventOf(events, u) ==
    LET mine == {k \in 1..Len(events) : events[k].user = u}
    IN  IF mine = {} THEN "" ELSE events[Max(mine)].action

C26_UnblockClearsMetadata ==
    (last.op = "unblock" /\ last.kind = "ok") =>
        \A u \in Students :
            /\ ~users[u].is_blocked
            /\ users[u].block_source = ""
            /\ users[u].blocked_reason = ""
            /\ users[u].blocked_at = NoTime
            /\ users[u].blocked_by = NoUser

\* ------------------------------------------------------------------------
\* C27: a get_cutoff_time call that begins after the latest save of the
\* setting has completed returns the value of the row, whether it finds
\* the cache filled or not.
\* ------------------------------------------------------------------------
C27_CacheInvalidated ==
    (last.op = "get_cutoff" /\ last.kind \in {"hit", "miss"}) =>
        last.day = RowCutoff

\* ------------------------------------------------------------------------
\* C28: the status of an order and its delivery fields agree: pending with
\* delivery pending and no delivered_at; picked_up with delivery delivered
\* and a delivered_at; no_show with delivery undelivered and no
\* delivered_at.
\* ------------------------------------------------------------------------
C28_StatusAgreesWithDelivery ==
    \A i \in OrderIds :
        /\ orders[i].status = "pending" =>
              /\ orders[i].delivery_status = "pending"
              /\ orders[i].delivered_at = NoTime
        /\ orders[i].status = "picked_up" =>
              /\ orders[i].delivery_status = "delivered"
              /\ orders[i].delivered_at # NoTime
        /\ orders[i].status = "no_show" =>
              /\ orders[i].delivery_status = "undelivered"
              /\ orders[i].delivered_at = NoTime

\* ------------------------------------------------------------------------
\* C29: a step of the kitchen toggle, the admin action or the sweep that
\* marks m pending orders of a student as no_show adds m to the student's
\* streak.
\* ------------------------------------------------------------------------
PendingOrders == {i \in OrderIds : orders[i].status = "pending"}

StreakGrowsBy(sel) ==
    \A u \in Students :
        users'[u].no_show_streak =
            users[u].no_show_streak
            + Cardinality({i \in sel : orders[i].user = u})

C29_NoLostIncrement ==
    [][/\ last'.op = "undelivered" =>
            \A i \in PendingOrders, by \in Operators :
                SetDeliveryStatus(i, "undelivered", by) => StreakGrowsBy({i})
       /\ last'.op = "admin_no_show" =>
            \A sel \in SUBSET PendingOrders, by \in Operators :
                AdminMarkNoShow(sel, by) => StreakGrowsBy(sel)
       /\ (last'.op = "sweep" /\ last'.kind = "marked") =>
            StreakGrowsBy(SweepEligible(now))]_vars

\* ------------------------------------------------------------------------
\* C30: a pickup (scan, kitchen toggle or admin action) leaves the blocked
\* flag and the block metadata of the student as they were; the flag goes
\* from true to false only in a successful unblock.
\* ------------------------------------------------------------------------
BlockFields(row) ==
    <<row.is_blocked, row.block_source, row.blocked_reason, row.blocked_at,
      row.blocked_by>>

C30_PickupKeepsBlock ==
    [][\A u \in Students :
          /\ last'.op \in {"delivered", "scan", "admin_picked_up"} =>
                BlockFields(users'[u]) = BlockFields(users[u])
          /\ (users[u].is_blocked /\ ~users'[u].is_blocked) =>
                (last'.op = "unblock" /\ last'.kind = "ok")]_vars

\* A blocked student's order has just been handed over: the student is
\* still blocked.
C30_Witness ==
    /\ last.op \in {"delivered", "scan", "admin_picked_up"}
    /\ users["ana"].is_blocked
    /\ users["ana"].last_pickup_at # NoTime
    /\ \E i \in OrderIds : orders[i].status = "picked_up"

====
